---- MODULE Spec2Model ----
(***************************************************************************)
(* The sample-buffer subsystem of the nova server: buffer_wrapper (one     *)
(* audio buffer over an aligned block) and buffer_manager (a fixed table   *)
(* of buffer_wrapper slots guarded by check_buffer_unused /                *)
(* check_buffer_in_use), over a small linear address space.                *)
(*                                                                         *)
(* Addresses and size_t values are counted in samples and live in          *)
(* 0 .. SizeMod-1; unsigned arithmetic wraps modulo SizeMod, which stands  *)
(* for 2^64.  Block k of the allocator starts at address k * Stride.       *)
(***************************************************************************)
EXTENDS Integers, Sequences, FiniteSets, TLC

\* ------------------------------------------------------------------ bounds
MaxBuffers   == 2
MaxFrames    == 2
MaxChannels  == 2
\* the largest block (in samples) the allocator can hand out
BlockSamples == 2

\* ------------------------------------------------------- program constants
NULL == 0

OK           == "ok"
AlreadyInUse == "buffer already in use"
NotInUse     == "buffer is not in use"
AllocError   == "could not allocate buffer"
CodecError   == "codec error"

\* sample_t values: silence and one non-zero value
Silence == "0.0f"
One     == "1.0f"
Sample  == {Silence, One}

\* float_type values a caller passes in (the template argument is wider
\* than sample_t: two inputs round to the same sample)
InValues == {"0.0", "1.0", "1.0+eps"}

\* sample_t(value): the conversion to single precision
ToSample(v) == IF v = "0.0" THEN Silence ELSE One

\* ----------------------------------------------------------- address space
Stride     == BlockSamples + 1
SizeMod    == (MaxBuffers + 1) * Stride
BlockAddrs == {k * Stride : k \in 1..MaxBuffers}

Min(a, b) == IF a < b THEN a ELSE b
Max(a, b) == IF a < b THEN b ELSE a

\* unsigned (size_t) subtraction and pointer addition
USub(a, b) == (a - b) % SizeMod
UAdd(a, b) == (a + b) % SizeMod

VARIABLES
    capacity,   \* buffers.size(), fixed by the constructor
    buffers,    \* buffer_manager::buffers : 0..capacity-1 -> buffer_wrapper
    heap,       \* contents of each block of the allocator (<<>> when not live)
    live,       \* blocks handed out by malloc_aligned and not yet released
    stray,      \* whether the last call stored outside every live block
    call,       \* the last manager call: operation, index, outcome, slot before
    lastFreed,  \* <<index, frames, channels>> of the last block free_buffer released
    obs,        \* the last call made below the manager, observed
    backend,    \* the backend of malloc_aligned.hpp the build compiled in
    raw,        \* blocks of the platform allocator handed out through malloc_aligned
    words,      \* the pointers saved in memory, by address
    destroyed,  \* whether ~buffer_manager() has run
    misreleased,\* whether free_aligned was given a block that was not live
    render,     \* the storage pointer the render path holds (NULL: none)
    stale       \* whether the render path read storage that had been released

vars == <<capacity, buffers, heap, live, stray, call, lastFreed, obs,
          backend, raw, words, destroyed, misreleased, render, stale>>

\* the table alone: one backend, no call below the manager, no destructor,
\* no render path
TableOnly ==
    /\ backend = "posix_memalign"
    /\ raw = {}
    /\ words = <<>>
    /\ destroyed = FALSE
    /\ misreleased = FALSE
    /\ render = NULL
    /\ stale = FALSE

TableOnlyUnchanged ==
    UNCHANGED <<backend, raw, words, destroyed, misreleased, render, stale>>

\* ------------------------------------------------------------ buffer_wrapper
\* buffer_wrapper(): data(0), frames_(0), channels_(0), sample_rate_(0)
buffer_wrapper ==
    [data |-> NULL, frames_ |-> 0, channels_ |-> 0, sample_rate_ |-> 0]

\* the memory seen by the stores of one call: block contents, live blocks,
\* and the addresses stored to outside every live block
Memory(h, l) == [heap |-> h, live |-> l, strays |-> {}]

\* the live block holding address a, if any
BlockOf(m, a) ==
    {b \in m.live : b <= a /\ a < b + Len(m.heap[b])}

\* *addr = v
Store(m, addr, v) ==
    LET a == addr % SizeMod
        bs == BlockOf(m, a)
    IN  IF bs = {}
        THEN [m EXCEPT !.strays = @ \cup {a}]
        ELSE LET b == CHOOSE x \in bs : TRUE
             IN  [m EXCEPT !.heap[b][a - b + 1] = v]

\* the stores ws[1], ws[2], ... (each <<address, value>>) in order
RECURSIVE StoreAll(_, _)
StoreAll(m, ws) ==
    IF ws = <<>> THEN m
    ELSE StoreAll(Store(m, ws[1][1], ws[1][2]), Tail(ws))

\* malloc_aligned<sample_t>(n): the results it can give, 0 on failure or
\* the lowest block not yet handed out (a block holds up to Stride - 1
\* samples)
malloc_aligned(l, n) ==
    {NULL} \cup {b \in BlockAddrs \ l :
                    n < Stride /\ \A c \in BlockAddrs \ l : b <= c}

\* free_aligned(ptr)
free_aligned(m, ptr) ==
    [m EXCEPT !.live = @ \ {ptr}, !.heap[ptr] = <<>>]

\* what a block of n samples can hold when malloc_aligned returns it: the
\* storage is not initialized
Uninitialized(n) == [1..n -> Sample]

\* buffer_wrapper::allocate(frames, channels) given malloc_aligned's result
\* ptr and the block's contents junk: storage for frames * channels samples
allocate(w, m, frames, channels, ptr, junk) ==
    IF ptr = NULL
    THEN [w |-> w, m |-> m, err |-> AllocError]
    ELSE [w |-> [w EXCEPT !.data = ptr, !.frames_ = frames, !.channels_ = channels],
          m |-> [m EXCEPT !.live = @ \cup {ptr}, !.heap[ptr] = junk],
          err |-> OK]

\* free() with a reset left out: of frames_, of channels_, of data
free_fault_keeps_frames(w, m) ==
    IF w.data # NULL
    THEN [w |-> [w EXCEPT !.data = NULL, !.channels_ = 0],
          m |-> free_aligned(m, w.data)]
    ELSE [w |-> w, m |-> m]

free_fault_keeps_channels(w, m) ==
    IF w.data # NULL
    THEN [w |-> [w EXCEPT !.data = NULL, !.frames_ = 0],
          m |-> free_aligned(m, w.data)]
    ELSE [w |-> w, m |-> m]

free_fault_keeps_data(w, m) ==
    IF w.data # NULL
    THEN [w |-> [w EXCEPT !.frames_ = 0, !.channels_ = 0],
          m |-> free_aligned(m, w.data)]
    ELSE [w |-> w, m |-> m]

\* free() without its test of data
free_fault_unguarded(w, m) ==
    [w |-> [w EXCEPT !.data = NULL, !.frames_ = 0, !.channels_ = 0],
     m |-> IF w.data # NULL THEN free_aligned(m, w.data)
           ELSE [m EXCEPT !.strays = @ \cup {NULL}]]

\* free() that resets the buffer and leaves the release for later
free_fault_defers(w, m) ==
    IF w.data # NULL
    THEN [w |-> [w EXCEPT !.data = NULL, !.frames_ = 0, !.channels_ = 0],
          m |-> m]
    ELSE [w |-> w, m |-> m]

\* buffer_wrapper::free()
free(w, m) ==
    IF w.data # NULL
    THEN [w |-> [w EXCEPT !.data = NULL, !.frames_ = 0, !.channels_ = 0],
          m |-> free_aligned(m, w.data)]
    ELSE [w |-> w, m |-> m]

\* zerovec(dest, n): n samples of silence from dest on
zerovec(dest, n) == [i \in 1..n |-> <<UAdd(dest, i - 1), Silence>>]

\* the stores of zero()
zero_stores(w) == zerovec(w.data, w.frames_)

\* buffer_wrapper::zero()
zero(w, m) == StoreAll(m, zero_stores(w))

\* the range test off by one
in_range_fault_inclusive(w, index) == index <= w.frames_

\* if (index < frames_)
in_range(w, index) == index < w.frames_

\* the stores of set_samples(count, indices, values): the loop from i on
RECURSIVE scatter_loop(_, _, _, _, _)
scatter_loop(w, i, count, indices, values) ==
    IF i = count THEN <<>>
    ELSE LET index == indices[i + 1]
         IN  (IF in_range(w, index)
              THEN << <<UAdd(w.data, index), ToSample(values[i + 1])>> >>
              ELSE <<>>)
             \o scatter_loop(w, i + 1, count, indices, values)

scatter_stores(w, count, indices, values) ==
    scatter_loop(w, 0, count, indices, values)

\* buffer_wrapper::set_samples(count, indices, values)
set_samples_scatter(w, m, count, indices, values) ==
    StoreAll(m, scatter_stores(w, count, indices, values))

\* the stores of set_samples(position, count, values)
contiguous_stores(w, position, count, values) ==
    LET base == UAdd(w.data, position)
        avail == USub(w.frames_, position)
        n == Min(count, avail)
    IN  [i \in 1..n |-> <<UAdd(base, i - 1), ToSample(values[i])>>]

\* buffer_wrapper::set_samples(position, count, values)
set_samples_contiguous(w, m, position, count, values) ==
    StoreAll(m, contiguous_stores(w, position, count, values))

\* the stores of fill_samples(position, count, value)
fill_stores(w, position, count, value) ==
    LET base == UAdd(w.data, position)
        avail == USub(w.frames_, position)
        n == Min(count, avail)
        val == ToSample(value)
    IN  [i \in 1..n |-> <<UAdd(base, i - 1), val>>]

\* buffer_wrapper::fill_samples(position, count, value)
fill_samples(w, m, position, count, value) ==
    StoreAll(m, fill_stores(w, position, count, value))

\* ------------------------------------------------------------ sound files
\* the files the codec can be pointed at: one that cannot be opened and a
\* two-frame stereo file (interleaved samples)
Files == {"missing.wav", "tone.wav"}

SoundFile(file) ==
    [frames |-> 2, channels |-> 2, samples |-> <<One, Silence, Silence, One>>]

\* whether the codec can decode frames [start_frame, start_frame + frames)
\* of the channels listed
Decodable(file, start_frame, frames, channels) ==
    /\ file = "tone.wav"
    /\ start_frame + frames <= SoundFile(file).frames
    /\ \A j \in 1..Len(channels) : channels[j] < SoundFile(file).channels

\* the decoded samples, interleaved over the channels listed
Decoded(file, start_frame, frames, channels) ==
    LET f == SoundFile(file)
        cc == Len(channels)
    IN  [k \in 1..(frames * cc) |->
            f.samples[(start_frame + (k - 1) \div cc) * f.channels
                      + channels[((k - 1) % cc) + 1] + 1]]

\* buffer_wrapper::read_file_channels(file, start_frame, frames,
\* channel_count, channels) given malloc_aligned's result
read_file_channels(w, m, file, start_frame, frames, channels, ptr) ==
    IF ~Decodable(file, start_frame, frames, channels)
    THEN [w |-> w, m |-> m, err |-> CodecError]
    ELSE allocate(w, m, frames, Len(channels), ptr,
                  Decoded(file, start_frame, frames, channels))

\* buffer_wrapper::read_file(file, start_frame, frames): every channel
read_file(w, m, file, start_frame, frames, ptr) ==
    read_file_channels(w, m, file, start_frame, frames,
                       [j \in 1..SoundFile(file).channels |-> j - 1], ptr)

\* buffer_wrapper::write_file(...): the outcomes the codec can report; the
\* buffer is not written
HeaderFormats == {"wav", "bogus"}
write_file(w, m, header_format) ==
    IF header_format = "wav" THEN {OK, CodecError} ELSE {CodecError}

\* ------------------------------------------------------------ buffer_manager
Indices == 0..(capacity - 1)

\* arguments of the calls the command layer issues
FrameArgs     == 0..MaxFrames
ChannelArgs   == 0..MaxChannels
PositionArgs  == 0..(MaxFrames + 1)
CountArgs     == 0..MaxFrames
IndexArgs     == 0..MaxFrames
ChannelLists  == {<<1>>, <<1, 0>>, <<2>>}
\* a payload of n values: alternating, starting with either value
Payloads(n)   == {[i \in 1..n |-> IF i % 2 = 1 THEN "1.0+eps" ELSE "0.0"],
                  [i \in 1..n |-> IF i % 2 = 1 THEN "0.0" ELSE "1.0"]}
\* <<file, start_frame, frames>> of a read: a file that cannot be opened,
\* ranges inside the file, and a range past its end
ReadRequests  == {<<"missing.wav", 0, 1>>, <<"tone.wav", 0, 0>>, <<"tone.wav", 0, 2>>,
                  <<"tone.wav", 1, 1>>, <<"tone.wav", 1, 2>>}

\* the record of a call: the operation, the slot, the error signaled (or
\* OK), whether the slot's own operation was reached, and whether the slot
\* held storage when the call was made
Record(op, index, err, reached) ==
    [op |-> op, index |-> index, err |-> err, reached |-> reached,
     wasAllocated |-> (buffers[index].data # NULL)]

\* check_buffer_unused without its throw
check_buffer_unused_fault_never_throws(index) == OK

\* buffer_manager::check_buffer_unused(index): the error thrown, or OK
check_buffer_unused(index) ==
    IF buffers[index].data # NULL THEN AlreadyInUse ELSE OK

\* check_buffer_in_use with its test inverted, and without its throw
check_buffer_in_use_fault_inverted(index) ==
    IF buffers[index].data # NULL THEN NotInUse ELSE OK

check_buffer_in_use_fault_never_throws(index) == OK

\* buffer_manager::check_buffer_in_use(index): the error thrown, or OK
check_buffer_in_use(index) ==
    IF buffers[index].data = NULL THEN NotInUse ELSE OK

\* the guard threw: the call ends before the slot's operation
Rejected(op, index, e) ==
    /\ call' = Record(op, index, e, FALSE)
    /\ stray' = FALSE
    /\ UNCHANGED <<capacity, buffers, heap, live>>

\* the slot's operation ran and left wrapper w and memory m
Completed(op, index, w, m, e) ==
    /\ call' = Record(op, index, e, TRUE)
    /\ buffers' = [buffers EXCEPT ![index] = w]
    /\ heap' = m.heap
    /\ live' = m.live
    /\ stray' = (m.strays # {})
    /\ UNCHANGED capacity

\* buffer_manager(max_buffers): max_buffers copies of buffer_wrapper()
Constructed(max_buffers) ==
    /\ capacity = max_buffers
    /\ buffers = [i \in 0..(max_buffers - 1) |-> buffer_wrapper]
    /\ heap = [b \in BlockAddrs |-> <<>>]
    /\ live = {}
    /\ stray = FALSE
    /\ call = [op |-> "none", index |-> 0, err |-> OK, reached |-> FALSE,
               wasAllocated |-> FALSE]

Init ==
    /\ \E max_buffers \in 0..MaxBuffers : Constructed(max_buffers)
    /\ lastFreed = <<>>
    /\ obs = [op |-> "none"]
    /\ TableOnly

\* allocate_buffer without its call of check_buffer_unused
allocate_buffer_fault_unguarded(index) ==
    \E frames \in FrameArgs, channels \in ChannelArgs :
    \E ptr \in malloc_aligned(live, frames * channels) :
    \E junk \in IF ptr = NULL THEN {<<>>}
                ELSE Uninitialized(frames * channels) :
       LET r == allocate(buffers[index], Memory(heap, live),
                         frames, channels, ptr, junk)
       IN  Completed("allocate_buffer", index, r.w, r.m, r.err)

allocate_buffer(index) ==
    LET e == check_buffer_unused(index)
    IN  IF e # OK THEN Rejected("allocate_buffer", index, e)
        ELSE \E frames \in FrameArgs, channels \in ChannelArgs :
             \E ptr \in malloc_aligned(live, frames * channels) :
             \E junk \in IF ptr = NULL THEN {<<>>}
                         ELSE Uninitialized(frames * channels) :
                LET r == allocate(buffers[index], Memory(heap, live),
                                  frames, channels, ptr, junk)
                IN  Completed("allocate_buffer", index, r.w, r.m, r.err)

read_buffer_allocate(index) ==
    LET e == check_buffer_unused(index)
    IN  IF e # OK THEN Rejected("read_buffer_allocate", index, e)
        ELSE \E q \in ReadRequests :
             \E ptr \in malloc_aligned(live, q[3] * SoundFile(q[1]).channels) :
                LET r == read_file(buffers[index], Memory(heap, live),
                                   q[1], q[2], q[3], ptr)
                IN  Completed("read_buffer_allocate", index, r.w, r.m, r.err)

read_buffer_channels_allocate(index) ==
    LET e == check_buffer_unused(index)
    IN  IF e # OK THEN Rejected("read_buffer_channels_allocate", index, e)
        ELSE \E q \in ReadRequests, channels \in ChannelLists :
             \E ptr \in malloc_aligned(live, q[3] * Len(channels)) :
                LET r == read_file_channels(buffers[index], Memory(heap, live),
                                            q[1], q[2], q[3], channels, ptr)
                IN  Completed("read_buffer_channels_allocate", index,
                              r.w, r.m, r.err)

free_buffer(index) ==
    LET e == check_buffer_in_use(index)
    IN  IF e # OK THEN Rejected("free_buffer", index, e)
        ELSE LET r == free(buffers[index], Memory(heap, live))
             IN  Completed("free_buffer", index, r.w, r.m, OK)

\* zero_buffer calling free() in place of zero()
zero_buffer_fault_frees(index) ==
    LET e == check_buffer_in_use(index)
    IN  IF e # OK THEN Rejected("zero_buffer", index, e)
        ELSE LET r == free(buffers[index], Memory(heap, live))
             IN  Completed("zero_buffer", index, r.w, r.m, OK)

zero_buffer(index) ==
    LET e == check_buffer_in_use(index)
    IN  IF e # OK THEN Rejected("zero_buffer", index, e)
        ELSE Completed("zero_buffer", index, buffers[index],
                       zero(buffers[index], Memory(heap, live)), OK)

\* set_samples(index, count, indices, values)
set_samples_indices(index) ==
    LET e == check_buffer_in_use(index)
    IN  IF e # OK THEN Rejected("set_samples_indices", index, e)
        ELSE \E count \in CountArgs :
             \E indices \in [1..count -> IndexArgs], values \in Payloads(count) :
                Completed("set_samples_indices", index, buffers[index],
                          set_samples_scatter(buffers[index], Memory(heap, live),
                                              count, indices, values), OK)

\* buffers[index].set_samples(count, position, count, values), the call made
\* by set_samples(index, position, count, values): the slot's
\* set_samples(position, count, values) has three parameters, and takes the
\* leading count as its position and position as its count
forwarded_set_samples(w, m, position, count, values) ==
    set_samples_contiguous(w, m, count, position, values)

\* set_samples(index, position, count, values); values points into an array
\* of MaxFrames + 1 values
set_samples_position(index) ==
    LET e == check_buffer_in_use(index)
    IN  IF e # OK THEN Rejected("set_samples_position", index, e)
        ELSE \E position \in PositionArgs, count \in CountArgs :
             \E values \in Payloads(MaxFrames + 1) :
                Completed("set_samples_position", index, buffers[index],
                          forwarded_set_samples(buffers[index], Memory(heap, live),
                                                position, count, values), OK)

fill_samples_buffer(index) ==
    LET e == check_buffer_in_use(index)
    IN  IF e # OK THEN Rejected("fill_samples", index, e)
        ELSE \E position \in PositionArgs, count \in CountArgs, value \in InValues :
                Completed("fill_samples", index, buffers[index],
                          fill_samples(buffers[index], Memory(heap, live),
                                       position, count, value), OK)

write_buffer(index) ==
    LET e == check_buffer_in_use(index)
    IN  IF e # OK THEN Rejected("write_buffer", index, e)
        ELSE \E header_format \in HeaderFormats :
             \E r \in write_file(buffers[index], Memory(heap, live), header_format) :
                Completed("write_buffer", index, buffers[index],
                          Memory(heap, live), r)

AllocateBuffer == \E index \in Indices : allocate_buffer(index)

ReadBufferAllocate == \E index \in Indices : read_buffer_allocate(index)

ReadBufferChannelsAllocate ==
    \E index \in Indices : read_buffer_channels_allocate(index)

FreeBuffer == \E index \in Indices : free_buffer(index)

ZeroBuffer == \E index \in Indices : zero_buffer(index)

SetSamplesIndices == \E index \in Indices : set_samples_indices(index)

SetSamplesPosition == \E index \in Indices : set_samples_position(index)

FillSamples == \E index \in Indices : fill_samples_buffer(index)

WriteBuffer == \E index \in Indices : write_buffer(index)

\* one call of the command layer
Command ==
    \/ AllocateBuffer
    \/ ReadBufferAllocate
    \/ ReadBufferChannelsAllocate
    \/ FreeBuffer
    \/ ZeroBuffer
    \/ SetSamplesIndices
    \/ SetSamplesPosition
    \/ FillSamples
    \/ WriteBuffer

\* the manager under the command layer: no history is kept
Untracked == UNCHANGED <<lastFreed, obs>> /\ TableOnlyUnchanged

Next ==
    \/ AllocateBuffer /\ Untracked
    \/ ReadBufferAllocate /\ Untracked
    \/ ReadBufferChannelsAllocate /\ Untracked
    \/ FreeBuffer /\ Untracked
    \/ ZeroBuffer /\ Untracked
    \/ SetSamplesIndices /\ Untracked
    \/ SetSamplesPosition /\ Untracked
    \/ FillSamples /\ Untracked
    \/ WriteBuffer /\ Untracked

Spec == Init /\ [][Next]_vars

\* ------------------------------------------------- the slot cycle, tracked
\* a one-slot table whose last released allocation is remembered
InitCycle ==
    /\ Constructed(1)
    /\ lastFreed = <<>>
    /\ obs = [op |-> "none"]
    /\ TableOnly

Tracked ==
    /\ lastFreed' = IF call'.op = "free_buffer" /\ call'.err = OK
                    THEN <<call'.index, buffers[call'.index].frames_,
                           buffers[call'.index].channels_>>
                    ELSE lastFreed
    /\ UNCHANGED obs
    /\ TableOnlyUnchanged

NextCycle ==
    \/ AllocateBuffer /\ Tracked
    \/ ReadBufferAllocate /\ Tracked
    \/ ReadBufferChannelsAllocate /\ Tracked
    \/ FreeBuffer /\ Tracked
    \/ ZeroBuffer /\ Tracked
    \/ SetSamplesIndices /\ Tracked
    \/ SetSamplesPosition /\ Tracked
    \/ FillSamples /\ Tracked
    \/ WriteBuffer /\ Tracked

SpecCycle == InitCycle /\ [][NextCycle]_vars

\* ------------------------------------------------------------------ claims
AllocOps == {"allocate_buffer", "read_buffer_allocate",
             "read_buffer_channels_allocate"}
UseOps   == {"free_buffer", "zero_buffer", "set_samples_indices",
             "set_samples_position", "fill_samples", "write_buffer"}

\* C1: a slot's operation is reached only in the matching state: allocate,
\* read_file and read_file_channels only on a slot that was Free, and free,
\* zero, set_samples (both forms), fill_samples and write_file only on a slot
\* that was Allocated; a call whose guard threw did not reach it.
C1_OperationRunsOnlyInMatchingState ==
    /\ call.reached =>
          /\ call.op \in AllocOps => ~call.wasAllocated
          /\ call.op \in UseOps => call.wasAllocated
    /\ call.err \in {AlreadyInUse, NotInUse} => ~call.reached

C1_Witness ==
    /\ call.reached /\ call.op = "fill_samples" /\ call.wasAllocated
    /\ \E i \in Indices : buffers[i].data = NULL

\* C2: allocate_buffer, read_buffer_allocate and read_buffer_channels_allocate
\* on an Allocated slot fail with "buffer already in use" and leave the
\* slot's storage, frame_count and channel_count as they were; on a Free slot
\* they do not signal that error.
C2_AllocateOnAllocatedSlotFails ==
    [][\A i \in Indices :
          (call'.op \in AllocOps /\ call'.index = i) =>
              IF buffers[i].data # NULL
              THEN /\ call'.err = AlreadyInUse
                   /\ buffers'[i] = buffers[i]
                   /\ heap'[buffers[i].data] = heap[buffers[i].data]
                   /\ buffers[i].data \in live'
              ELSE call'.err # AlreadyInUse]_vars

C2_Witness ==
    /\ call.op = "read_buffer_channels_allocate"
    /\ call.err = AlreadyInUse
    /\ buffers[call.index].frames_ = 1
    /\ buffers[call.index].channels_ = 2

\* C3: free_buffer, zero_buffer, both set_samples, fill_samples and
\* write_buffer on a Free slot fail with "buffer is not in use" and leave the
\* slot Free and unchanged; on an Allocated slot they do not signal that
\* error.
C3_UseOfFreeSlotFails ==
    [][\A i \in Indices :
          (call'.op \in UseOps /\ call'.index = i) =>
              IF buffers[i].data = NULL
              THEN /\ call'.err = NotInUse
                   /\ buffers'[i] = buffers[i]
                   /\ buffers'[i].data = NULL
                   /\ live' = live
              ELSE call'.err # NotInUse]_vars

C3_Witness ==
    /\ call.op = "free_buffer"
    /\ call.err = NotInUse
    /\ buffers[call.index].data = NULL
    /\ lastFreed = <<>>

\* C4: every slot starts Free; a successful allocate_buffer on a Free slot
\* makes it Allocated, allocate_buffer on an Allocated slot fails with
\* "buffer already in use" and leaves it Allocated, free_buffer on an
\* Allocated slot makes it Free, and a slot changes state in no other way,
\* for any number of rounds.  (The scenario's 512 x 2 and 256 x 1 buffers are
\* scaled to 1 x 2 and 2 x 1.)
C4_SlotFollowsFreeAllocatedCycle ==
    /\ \A i \in Indices : buffers[i].data = NULL
    /\ [][\A i \in Indices :
             /\ (call'.op = "allocate_buffer" /\ call'.index = i) =>
                   IF buffers[i].data = NULL
                   THEN call'.err = OK => buffers'[i].data # NULL
                   ELSE call'.err = AlreadyInUse /\ buffers'[i].data # NULL
             /\ (call'.op = "free_buffer" /\ call'.index = i
                 /\ buffers[i].data # NULL) =>
                   call'.err = OK /\ buffers'[i].data = NULL
             /\ (buffers[i].data = NULL /\ buffers'[i].data # NULL) =>
                   call'.op \in AllocOps /\ call'.index = i /\ call'.err = OK
             /\ (buffers[i].data # NULL /\ buffers'[i].data = NULL) =>
                   call'.op = "free_buffer" /\ call'.index = i]_vars

\* slot 0 held a 1 x 2 buffer, was freed, and allocate_buffer(0, 2, 1) succeeded
C4_Witness ==
    /\ lastFreed = <<0, 1, 2>>
    /\ call.op = "allocate_buffer" /\ call.index = 0 /\ call.err = OK
    /\ buffers[0].data # NULL
    /\ buffers[0].frames_ = 2
    /\ buffers[0].channels_ = 1

\* C5: after a successful free_buffer (the slot had been allocated by a
\* successful allocating operation) every attribute of the slot, data,
\* frames_, channels_ and sample_rate_, equals its value in a freshly
\* constructed table.
C5_FreeRestoresInitialSlot ==
    (call.op = "free_buffer" /\ call.err = OK) =>
        buffers[call.index] = buffer_wrapper

C5_Witness ==
    /\ call.op = "free_buffer" /\ call.err = OK /\ call.wasAllocated
    /\ buffers[call.index].data = NULL

\* C6 as stated: in every reachable state, for every slot, storage is absent
\* if and only if frame_count = 0 and channel_count = 0.
C6_StorageAbsentIffZeroCounts ==
    \A i \in Indices :
        (buffers[i].data = NULL) <=>
            (buffers[i].frames_ = 0 /\ buffers[i].channels_ = 0)

\* C6, amended: in every reachable state, for every slot, absent storage
\* implies frame_count = 0 and channel_count = 0, and present storage is a
\* live block of frame_count * channel_count samples (which is empty when
\* both counts are zero).
C6_AbsentStorageHasZeroCounts ==
    \A i \in Indices :
        /\ buffers[i].data = NULL =>
              (buffers[i].frames_ = 0 /\ buffers[i].channels_ = 0)
        /\ buffers[i].data # NULL =>
              /\ buffers[i].data \in live
              /\ Len(heap[buffers[i].data]) =
                     buffers[i].frames_ * buffers[i].channels_

\* a slot allocated with zero frames and zero channels holds storage, beside
\* a slot that was freed
C6_Witness ==
    /\ \E i \in Indices :
          /\ buffers[i].data # NULL
          /\ buffers[i].frames_ = 0
          /\ buffers[i].channels_ = 0
    /\ call.op = "free_buffer" /\ call.err = OK

\* ------------------------------------------------ buffer-level specification
\* One buffer_wrapper operation applied to slot 0 of a one-slot table whose
\* slot holds a buffer of any shape and any contents.
BufPositions  == 0..(MaxFrames + 1) \cup {SizeMod - 1}
BufCounts     == 0..(MaxFrames + 1)
BufIndices    == 0..(MaxFrames + 1) \cup {SizeMod - 1}
ScatterCounts == 0..MaxFrames
ValueSeqs(n)  == [1..n -> InValues]

InitBuf ==
    \E frames \in FrameArgs, channels \in ChannelArgs :
    \E ptr \in malloc_aligned({}, frames * channels) \ {NULL} :
    \E junk \in Uninitialized(frames * channels) :
        LET r == allocate(buffer_wrapper, Memory([b \in BlockAddrs |-> <<>>], {}),
                          frames, channels, ptr, junk)
        IN  /\ capacity = 1
            /\ buffers = [i \in 0..0 |-> r.w]
            /\ heap = r.m.heap
            /\ live = r.m.live
            /\ stray = FALSE
            /\ call = [op |-> "allocate_buffer", index |-> 0, err |-> OK,
                       reached |-> TRUE, wasAllocated |-> FALSE]
            /\ lastFreed = <<>>
            /\ obs = [op |-> "none"]
            /\ TableOnly

\* the operation ran with the given arguments and stores
Observe(op, args, stores) ==
    LET m == StoreAll(Memory(heap, live), stores)
    IN  /\ obs.op = "none"
        /\ obs' = [op |-> op, args |-> args, stores |-> stores,
                   pre |-> heap[buffers[0].data], strays |-> m.strays]
        /\ heap' = m.heap
        /\ live' = m.live
        /\ stray' = (m.strays # {})
        /\ UNCHANGED <<capacity, buffers, call, lastFreed>>
        /\ TableOnlyUnchanged

BufZero == Observe("zero", <<>>, zero_stores(buffers[0]))

BufSetSamplesScatter ==
    /\ obs.op = "none"
    /\ \E count \in ScatterCounts :
       \E indices \in [1..count -> BufIndices], values \in ValueSeqs(count) :
        Observe("set_samples_scatter",
                [count |-> count, indices |-> indices, values |-> values],
                scatter_stores(buffers[0], count, indices, values))

BufSetSamplesContiguous ==
    /\ obs.op = "none"
    /\ \E position \in BufPositions, count \in BufCounts :
       \E values \in ValueSeqs(count) :
        Observe("set_samples_contiguous",
                [position |-> position, count |-> count, values |-> values],
                contiguous_stores(buffers[0], position, count, values))

BufFillSamples ==
    /\ obs.op = "none"
    /\ \E position \in BufPositions, count \in BufCounts, value \in InValues :
        Observe("fill_samples",
                [position |-> position, count |-> count, value |-> value],
                fill_stores(buffers[0], position, count, value))

NextBuf ==
    \/ BufZero
    \/ BufSetSamplesScatter
    \/ BufSetSamplesContiguous
    \/ BufFillSamples

SpecBuf == InitBuf /\ [][NextBuf]_vars

\* the buffer the operation ran on, its contents now, and the offsets (from
\* data) the operation stored to
Buf        == buffers[0]
Post       == heap[Buf.data]
Offsets    == {USub(obs.stores[k][1], Buf.data) : k \in 1..Len(obs.stores)}
\* count clamped to max(0, frame_count - position)
Clamp(position, count) == Min(count, Max(0, Buf.frames_ - position))

\* C7: contiguous SetSamples(position, count, values) on a buffer of
\* frame_count F (with at least one channel) stores exactly
\* min(count, max(0, F - position)) samples, values[1..] at position,
\* position + 1, ..., none at or past index F, and leaves every other sample
\* as it was.
C7_ContiguousSetSamplesClamps ==
    (obs.op = "set_samples_contiguous" /\ Buf.channels_ >= 1) =>
        LET p == obs.args.position
            n == Clamp(p, obs.args.count)
        IN  /\ Len(obs.stores) = n
            /\ Offsets = {p + k - 1 : k \in 1..n}
            /\ \A o \in Offsets : o < Buf.frames_
            /\ obs.strays = {}
            /\ \A k \in 1..Len(Post) :
                  Post[k] = IF p < k /\ k <= p + n
                            THEN ToSample(obs.args.values[k - p])
                            ELSE obs.pre[k]

\* C8: FillSamples(position, count, value) on a buffer of frame_count F (with
\* at least one channel) sets exactly the samples at indices
\* [position, min(position + count, F)) to value, stores nothing when
\* position >= F, and leaves every other sample as it was.
C8_FillSamplesClamps ==
    (obs.op = "fill_samples" /\ Buf.channels_ >= 1) =>
        LET p == obs.args.position
            n == Clamp(p, obs.args.count)
        IN  /\ Len(obs.stores) = n
            /\ Offsets = {p + k - 1 : k \in 1..n}
            /\ obs.strays = {}
            /\ \A k \in 1..Len(Post) :
                  Post[k] = IF p < k /\ k <= p + n
                            THEN ToSample(obs.args.value)
                            ELSE obs.pre[k]

\* the last pair of the scatter call that names index k
LastPair(k) ==
    CHOOSE i \in 1..obs.args.count :
        /\ obs.args.indices[i] = k
        /\ \A j \in (i + 1)..obs.args.count : obs.args.indices[j] # k

\* C9: scatter SetSamples(indices, values) stores exactly at the indices
\* below frame_count, each such sample ending as the (converted) value of the
\* last pair that names it; a pair with indices[i] >= frame_count stores
\* nothing, so every other sample is as it was and nothing is stored outside
\* [0, frame_count).
C9_ScatterDropsOutOfRange ==
    obs.op = "set_samples_scatter" =>
        /\ Offsets = {obs.args.indices[i] : i \in
                         {j \in 1..obs.args.count :
                             obs.args.indices[j] < Buf.frames_}}
        /\ \A o \in Offsets : o < Buf.frames_
        /\ Buf.channels_ >= 1 => obs.strays = {}
        /\ \A k \in 1..Len(Post) :
              Post[k] = IF k - 1 \in Offsets
                        THEN ToSample(obs.args.values[LastPair(k - 1)])
                        ELSE obs.pre[k]

\* two pairs, one in range and one at frame_count, on a two-frame buffer
C9_Witness ==
    /\ obs.op = "set_samples_scatter"
    /\ Buf.frames_ = 2 /\ Buf.channels_ = 1
    /\ obs.args.count = 2
    /\ obs.args.indices = <<2, 1>>
    /\ obs.pre = <<One, Silence>>
    /\ Post = <<One, One>>

\* C10: after Zero() on an allocated buffer with frame_count F and
\* channel_count C >= 1, all F * C stored samples are silence.
C10_ZeroSilencesEverySample ==
    (obs.op = "zero" /\ Buf.channels_ >= 1) =>
        /\ Len(Post) = Buf.frames_ * Buf.channels_
        /\ \A k \in 1..Len(Post) : Post[k] = Silence


\* ------------------------------------------------------- failed allocations
\* C11: when allocate_buffer cannot obtain storage, or read_buffer_allocate or
\* read_buffer_channels_allocate fails with a codec error, an error is
\* signaled and the slot afterwards has no storage and frame_count =
\* channel_count = 0; no block is left behind for a later operation to see:
\* every live block is the storage of a slot.
C11_FailedAllocationLeavesSlotFree ==
    /\ (call.op \in AllocOps /\ call.reached /\ call.err # OK) =>
          /\ call.err \in {AllocError, CodecError}
          /\ buffers[call.index].data = NULL
          /\ buffers[call.index].frames_ = 0
          /\ buffers[call.index].channels_ = 0
    /\ (call.op \in AllocOps /\ call.reached /\ call.err = OK) =>
          buffers[call.index].data # NULL
    /\ \A b \in live : \E i \in Indices : buffers[i].data = b

\* a read the codec could not decode failed on a Free slot, beside an
\* Allocated slot
C11_Witness ==
    /\ call.op = "read_buffer_channels_allocate"
    /\ call.reached /\ call.err = CodecError
    /\ buffers[call.index] = buffer_wrapper
    /\ \E i \in Indices : buffers[i].data # NULL


\* ------------------------------------------------------- malloc_aligned.hpp
\* Byte addresses and std::size_t values of the allocation functions live in
\* 0 .. AddrMod-1 and wrap modulo AddrMod.
AddrBits == 8
AddrMod  == 2 ^ AddrBits

malloc_memory_alignment == 64
VECTORALIGNMENT         == 128
\* sizeof(void *) and sizeof(sample_t)
PointerSize == 8
SampleSize  == 4
\* the boundary tbb::cache_aligned_allocator aligns to
NFS_LineSize == 128

PosixMemalign == "posix_memalign"
TBB           == "tbb"
Fallback      == "fallback"
Backends      == {PosixMemalign, TBB, Fallback}

NoThrow  == "none"
BadAlloc == "std::bad_alloc"

SizeT(x) == x % AddrMod

\* the sizes a caller asks for: the small ones, and the ones close to the
\* largest std::size_t
Sizes ==
    {n \in 0..(AddrMod - 1) :
        \/ n < 2 * (VECTORALIGNMENT \div 8)
        \/ n >= AddrMod - 2 * (VECTORALIGNMENT \div 8)}

\* the end of the addresses the platform hands out: the top of the address
\* space is not mapped
HeapEnd == AddrMod - malloc_memory_alignment

\* the non-null addresses where the platform can place size bytes on a
\* boundary of align bytes
Placements(size, align) ==
    {a \in 1..HeapEnd : a % align = 0 /\ a + size <= HeapEnd}

\* what one allocation call did: the pointer returned, the exception thrown,
\* the platform block obtained (vec = NULL: none) and the pointer word saved
\* in memory (<<address, value>>, <<>>: none)
Outcome(ret, threw, vec, size, saved) ==
    [ret |-> ret, threw |-> threw, vec |-> vec, size |-> size, saved |-> saved]

\* malloc_aligned over posix_memalign: a non-zero status gives 0 (a status
\* of zero with a null pointer is possible for nbytes = 0)
malloc_aligned_posix(nbytes) ==
    {Outcome(NULL, NoThrow, NULL, 0, <<>>)}
    \cup {Outcome(a, NoThrow, a, nbytes, <<>>) :
             a \in Placements(nbytes, malloc_memory_alignment)}

\* malloc_aligned over tbb::cache_aligned_allocator<void*>: allocate(nbytes)
\* obtains nbytes elements of void* on a cache-line boundary, or throws
malloc_aligned_tbb(nbytes) ==
    {Outcome(NULL, BadAlloc, NULL, 0, <<>>)}
    \cup {Outcome(a, NoThrow, a, nbytes * PointerSize, <<>>) :
             a \in Placements(nbytes * PointerSize, NFS_LineSize)}

\* the fallback, for a block vec that malloc returned: the alignment of the
\* first byte after the pointer word (x & (VECTORALIGNMENT/8-1) is x modulo
\* VECTORALIGNMENT/8), the aligned pointer, and vec saved in the word before
\* it
fallback_align(vec, size) ==
    LET alignment == (vec + PointerSize) % (VECTORALIGNMENT \div 8)
        ret == SizeT(vec + PointerSize
                     + (IF alignment = 0 THEN 0
                        ELSE VECTORALIGNMENT \div 8 - alignment))
    IN  Outcome(ret, NoThrow, vec, size, <<SizeT(ret - PointerSize), vec>>)

\* malloc_aligned of the fallback: malloc(nbytes + (VECTORALIGNMENT/8-1)
\* + sizeof(void *)), the sum computed in std::size_t
malloc_aligned_fallback(nbytes) ==
    LET size == SizeT(nbytes + (VECTORALIGNMENT \div 8 - 1) + PointerSize)
    IN  {Outcome(NULL, NoThrow, NULL, 0, <<>>)}
        \cup {fallback_align(vec, size) : vec \in Placements(size, 1)}

\* malloc_aligned(nbytes) of the backend compiled in
malloc_aligned_bytes(nbytes) ==
    CASE backend = PosixMemalign -> malloc_aligned_posix(nbytes)
      [] backend = TBB           -> malloc_aligned_tbb(nbytes)
      [] backend = Fallback      -> malloc_aligned_fallback(nbytes)

\* whether the pointer word was saved inside the block obtained
SavedInside(o) ==
    o.saved # <<>> =>
        /\ o.vec <= o.saved[1]
        /\ o.saved[1] + PointerSize <= o.vec + o.size

\* free_aligned(ptr): the pointer handed to the platform's release, for each
\* value the word before ptr can hold (a word that was not saved inside the
\* block holds anything)
free_aligned_bytes(b) ==
    CASE backend = PosixMemalign -> {b.ret}
      [] backend = TBB           -> {b.ret}
      [] backend = Fallback      ->
            LET at == SizeT(b.ret - PointerSize)
            IN  IF at \in DOMAIN words THEN {words[at]}
                ELSE {NULL, b.vec, b.ret}

\* an allocation call and what it left: the block is remembered with the
\* pointer handed to the caller, and memset is the extent calloc_aligned
\* cleared (<<>>: none)
Allocated(op, nbytes, o, memset) ==
    /\ obs' = [op |-> op, nbytes |-> nbytes, ret |-> o.ret, threw |-> o.threw,
               vec |-> o.vec, size |-> o.size, saved |-> o.saved,
               memset |-> memset]
    /\ raw' = IF o.vec = NULL THEN raw
              ELSE raw \cup {[vec |-> o.vec, size |-> o.size, ret |-> o.ret]}
    /\ words' = IF o.saved # <<>> /\ SavedInside(o)
                THEN (o.saved[1] :> o.saved[2]) @@ words
                ELSE words
    /\ UNCHANGED <<capacity, buffers, heap, live, stray, call, lastFreed,
                   backend, destroyed, misreleased, render, stale>>

\* calloc_aligned: memset(ret, 0, nbytes) only for a non-null ret
Cleared(o, nbytes) ==
    IF o.threw = NoThrow /\ o.ret # NULL THEN <<o.ret, nbytes>> ELSE <<>>

\* one allocation call is observed, then its release
MallocAligned ==
    /\ obs.op = "none"
    /\ \E nbytes \in Sizes : \E o \in malloc_aligned_bytes(nbytes) :
        Allocated("malloc_aligned", nbytes, o, <<>>)

CallocAligned ==
    /\ obs.op = "none"
    /\ \E nbytes \in Sizes : \E o \in malloc_aligned_bytes(nbytes) :
        Allocated("calloc_aligned", nbytes, o, Cleared(o, nbytes))

\* malloc_aligned<sample_t>(n): n * sizeof(sample_t) bytes
MallocAlignedTyped ==
    /\ obs.op = "none"
    /\ \E n \in Sizes : \E o \in malloc_aligned_bytes(SizeT(n * SampleSize)) :
        Allocated("malloc_aligned<sample_t>", SizeT(n * SampleSize), o, <<>>)

\* calloc_aligned<sample_t>(n)
CallocAlignedTyped ==
    /\ obs.op = "none"
    /\ \E n \in Sizes : \E o \in malloc_aligned_bytes(SizeT(n * SampleSize)) :
        Allocated("calloc_aligned<sample_t>", SizeT(n * SampleSize), o,
                  Cleared(o, SizeT(n * SampleSize)))

\* free_aligned(ptr) for the pointer of a block a caller holds: the platform
\* releases the block that starts at the pointer it is handed
FreeAligned ==
    \E b \in raw : \E ori \in free_aligned_bytes(b) :
        /\ obs.op # "free_aligned"
        /\ b.ret # NULL
        /\ obs' = [op |-> "free_aligned", ptr |-> b.ret, vec |-> b.vec,
                   released |-> ori]
        /\ raw' = {x \in raw : x.vec # ori}
        /\ words' = <<>>
        /\ UNCHANGED <<capacity, buffers, heap, live, stray, call, lastFreed,
                       backend, destroyed, misreleased, render, stale>>

InitAlloc ==
    /\ Constructed(0)
    /\ lastFreed = <<>>
    /\ obs = [op |-> "none"]
    /\ backend \in Backends
    /\ raw = {}
    /\ words = <<>>
    /\ destroyed = FALSE
    /\ misreleased = FALSE
    /\ render = NULL
    /\ stale = FALSE

NextAlloc ==
    \/ MallocAligned
    \/ CallocAligned
    \/ MallocAlignedTyped
    \/ CallocAlignedTyped
    \/ FreeAligned

SpecAlloc == InitAlloc /\ [][NextAlloc]_vars

AllocationOps == {"malloc_aligned", "calloc_aligned",
                  "malloc_aligned<sample_t>", "calloc_aligned<sample_t>"}

\* C12: every non-null pointer malloc_aligned returns is a multiple of
\* malloc_memory_alignment (64), under each backend, for every address the
\* platform allocator can return.
C12_BlocksAlignedToConstant ==
    (obs.op \in AllocationOps /\ obs.threw = NoThrow /\ obs.ret # NULL) =>
        obs.ret % malloc_memory_alignment = 0


\* C13: malloc_aligned, calloc_aligned and the typed variants never raise:
\* under each backend a failed allocation gives a null result, and a null
\* result is not written through (no memset, no saved pointer word).
C13_AllocationNeverRaises ==
    obs.op \in AllocationOps =>
        /\ obs.threw = NoThrow
        /\ obs.vec = NULL => obs.ret = NULL
        /\ obs.ret = NULL => (obs.memset = <<>> /\ obs.saved = <<>>)

\* C18: in the fallback, for every block vec that malloc returned and every
\* size n, the aligned pointer ret satisfies vec + sizeof(void *) <= ret and
\* ret + n <= vec + n + (VECTORALIGNMENT/8 - 1) + sizeof(void *), the bytes
\* [ret, ret + n) and the pointer word before ret lie inside the block malloc
\* returned, that word holds vec, and free_aligned(ret) releases exactly vec.
C18_FallbackKeepsRegionInsideBlock ==
    /\ (backend = Fallback /\ obs.op \in AllocationOps /\ obs.vec # NULL) =>
          /\ obs.vec + PointerSize <= obs.ret
          /\ obs.ret + obs.nbytes <=
                 obs.vec + obs.nbytes + (VECTORALIGNMENT \div 8 - 1) + PointerSize
          /\ obs.ret + obs.nbytes <= obs.vec + obs.size
          /\ obs.ret - PointerSize \in DOMAIN words
          /\ words[obs.ret - PointerSize] = obs.vec
    /\ (backend = Fallback /\ obs.op = "free_aligned") =>
          /\ obs.released = obs.vec
          /\ raw = {}


\* ------------------------------------------------- the lifetime of the table
\* ~buffer_wrapper() that releases nothing
destructor_fault_leaks(w, m) == [m |-> m, bad |-> FALSE]

\* ~buffer_wrapper(): if (data) free_aligned(data); bad tells whether the
\* block handed to free_aligned was not live
destructor(w, m) ==
    IF w.data # NULL
    THEN [m |-> free_aligned(m, w.data), bad |-> w.data \notin m.live]
    ELSE [m |-> m, bad |-> FALSE]

\* ~vector<buffer_wrapper>(): the destructor of every element from i on
RECURSIVE destroy_all(_, _, _)
destroy_all(i, m, bad) ==
    IF i >= capacity THEN [m |-> m, bad |-> bad]
    ELSE LET r == destructor(buffers[i], m)
         IN  destroy_all(i + 1, r.m, bad \/ r.bad)

\* ~buffer_manager()
Destroy ==
    /\ ~destroyed
    /\ LET r == destroy_all(0, Memory(heap, live), FALSE)
       IN  /\ heap' = r.m.heap
           /\ live' = r.m.live
           /\ misreleased' = (misreleased \/ r.bad)
    /\ destroyed' = TRUE
    /\ stray' = FALSE
    /\ call' = [op |-> "~buffer_manager", index |-> 0, err |-> OK,
                reached |-> TRUE, wasAllocated |-> FALSE]
    /\ UNCHANGED <<capacity, buffers, lastFreed, obs, backend, raw, words,
                   render, stale>>

\* a call on the living table; the release free_buffer made is checked
\* against the live blocks
Ledger ==
    /\ ~destroyed
    /\ misreleased' = (misreleased
                       \/ (/\ call'.op = "free_buffer"
                           /\ call'.reached
                           /\ buffers[call'.index].data \notin live))
    /\ UNCHANGED <<lastFreed, obs, backend, raw, words, destroyed, render, stale>>

\* buffer_manager(max_buffers): the temporary buffer_wrapper() is copied
\* into every slot and then destroyed
InitLife ==
    /\ \E max_buffers \in 0..MaxBuffers : Constructed(max_buffers)
    /\ lastFreed = <<>>
    /\ obs = [op |-> "none"]
    /\ backend = "posix_memalign"
    /\ raw = {}
    /\ words = <<>>
    /\ destroyed = FALSE
    /\ misreleased = destructor(buffer_wrapper, Memory(heap, live)).bad
    /\ render = NULL
    /\ stale = FALSE

NextLife ==
    \/ AllocateBuffer /\ Ledger
    \/ ReadBufferAllocate /\ Ledger
    \/ ReadBufferChannelsAllocate /\ Ledger
    \/ FreeBuffer /\ Ledger
    \/ ZeroBuffer /\ Ledger
    \/ SetSamplesIndices /\ Ledger
    \/ SetSamplesPosition /\ Ledger
    \/ FillSamples /\ Ledger
    \/ WriteBuffer /\ Ledger
    \/ Destroy

SpecLife == InitLife /\ [][NextLife]_vars

\* C14: every block obtained for a slot is released exactly once: no call of
\* free_aligned, from free_buffer or from the destructors, is handed a block
\* that is not live; while the table lives every live block is the storage of
\* exactly one slot (the slots copied at construction share none); and after
\* the table's destruction no block is live.
C14_BlocksReleasedExactlyOnce ==
    /\ ~misreleased
    /\ ~destroyed =>
          /\ live = {buffers[i].data : i \in Indices} \ {NULL}
          /\ \A i, j \in Indices :
                (i # j /\ buffers[i].data # NULL) =>
                    buffers[i].data # buffers[j].data
    /\ destroyed => live = {}

\* a table destroyed with two Allocated slots
C14_Witness ==
    /\ destroyed
    /\ live = {}
    /\ capacity = 2
    /\ buffers[0].data # NULL
    /\ buffers[1].data # NULL
    /\ buffers[0].data > buffers[1].data


\* ------------------------------------------- the manager's contiguous write
\* set_samples(0, position, count, values) of the manager on a one-slot table
\* whose slot holds a buffer of any shape and any contents, observed with
\* its arguments
ManagerSetSamples ==
    /\ obs.op = "none"
    /\ check_buffer_in_use(0) = OK
    /\ \E position \in PositionArgs, count \in CountArgs :
       \E values \in Payloads(MaxFrames + 1) :
          LET m == forwarded_set_samples(buffers[0], Memory(heap, live),
                                         position, count, values)
          IN  /\ obs' = [op |-> "set_samples",
                         args |-> [position |-> position, count |-> count,
                                   values |-> values],
                         pre |-> heap[buffers[0].data], strays |-> m.strays]
              /\ Completed("set_samples_position", 0, buffers[0], m, OK)
    /\ UNCHANGED lastFreed
    /\ TableOnlyUnchanged

NextFwd == ManagerSetSamples

SpecFwd == InitBuf /\ [][NextFwd]_vars

\* C15: the manager's set_samples(index, position, count, values) on an
\* Allocated slot leaves the memory that the slot's own
\* set_samples(position, count, values) leaves, with the same position, count
\* and values.
C15_ManagerForwardsArgumentsUnchanged ==
    obs.op = "set_samples" =>
        LET before == Memory([heap EXCEPT ![Buf.data] = obs.pre], live)
            direct == set_samples_contiguous(Buf, before, obs.args.position,
                                             obs.args.count, obs.args.values)
        IN  /\ heap = direct.heap
            /\ obs.strays = direct.strays


\* ------------------------------------------------------------ self-transitions
SelfOps == {"zero_buffer", "set_samples_indices", "set_samples_position",
            "fill_samples", "write_buffer"}

\* C16: zero_buffer, both set_samples, fill_samples and write_buffer on an
\* Allocated slot reach the slot's operation and leave the slot Allocated
\* with the same storage block (still live, of the same size), frame_count
\* and channel_count; write_buffer also leaves every sample as it was.
C16_UseOperationsAreSelfTransitions ==
    [][\A i \in Indices :
          (call'.op \in SelfOps /\ call'.index = i /\ buffers[i].data # NULL) =>
              /\ call'.reached
              /\ buffers'[i] = buffers[i]
              /\ buffers[i].data \in live'
              /\ Len(heap'[buffers[i].data]) = Len(heap[buffers[i].data])
              /\ call'.op = "write_buffer" => (heap' = heap /\ live' = live)]_vars

\* zero_buffer ran on a slot of two frames and one channel
C16_Witness ==
    /\ call.op = "zero_buffer" /\ call.reached /\ call.err = OK
    /\ buffers[call.index].data # NULL
    /\ buffers[call.index].frames_ = 2
    /\ buffers[call.index].channels_ = 1
    /\ heap[buffers[call.index].data] = <<Silence, Silence>>


\* ------------------------------------------------- free() below the manager
\* buffer_wrapper::free() called on the slot's buffer itself, observed with
\* the buffer it was called on
BufFree ==
    LET r == free(buffers[0], Memory(heap, live))
    IN  /\ obs' = [op |-> "free", before |-> buffers[0], strays |-> r.m.strays]
        /\ buffers' = [buffers EXCEPT ![0] = r.w]
        /\ heap' = r.m.heap
        /\ live' = r.m.live
        /\ UNCHANGED <<capacity, stray, call, lastFreed>>
        /\ TableOnlyUnchanged

\* a call through the manager
Unobserved ==
    /\ obs' = [op |-> "none"]
    /\ UNCHANGED lastFreed
    /\ TableOnlyUnchanged

NextFree ==
    \/ AllocateBuffer /\ Unobserved
    \/ ReadBufferAllocate /\ Unobserved
    \/ ReadBufferChannelsAllocate /\ Unobserved
    \/ FreeBuffer /\ Unobserved
    \/ ZeroBuffer /\ Unobserved
    \/ SetSamplesIndices /\ Unobserved
    \/ SetSamplesPosition /\ Unobserved
    \/ FillSamples /\ Unobserved
    \/ WriteBuffer /\ Unobserved
    \/ BufFree

SpecFree == InitCycle /\ [][NextFree]_vars

\* C17: free() on an unallocated buffer changes nothing and releases
\* nothing, free() on an allocated buffer releases its block and leaves it
\* unallocated, and free() applied twice leaves what one free() leaves; the
\* manager's free_buffer is what rejects a Free slot, with "buffer is not in
\* use", before the slot's free() is reached.
C17_BufferFreeIsIdempotent ==
    /\ [](LET once == free(buffers[0], Memory(heap, live))
          IN  free(once.w, once.m) = once)
    /\ []((call.op = "free_buffer" /\ ~call.wasAllocated) =>
              (call.err = NotInUse /\ ~call.reached))
    /\ [][obs'.op = "free" =>
             /\ obs'.strays = {}
             /\ buffers'[0].data = NULL
             /\ buffers'[0].frames_ = 0
             /\ buffers'[0].channels_ = 0
             /\ IF buffers[0].data = NULL
                THEN buffers' = buffers /\ heap' = heap /\ live' = live
                ELSE live' = live \ {buffers[0].data}]_vars

\* free() ran on the buffer that an earlier free() had left unallocated,
\* after allocate_buffer had allocated the slot
C17_Witness ==
    /\ obs.op = "free"
    /\ obs.before = buffer_wrapper
    /\ buffers[0] = buffer_wrapper
    /\ call.op = "allocate_buffer" /\ call.err = OK


\* ------------------------------------------------------------ independence
\* C19: a manager call addressed to slot i, whether it succeeds or fails,
\* leaves every other slot j as it was (Free or Allocated, the same storage
\* block, frame_count, channel_count and sample contents), and the capacity
\* of the table never changes.
C19_SlotsAreIndependent ==
    [][/\ capacity' = capacity
       /\ \A i, j \in Indices :
             (call'.index = i /\ j # i) =>
                 /\ buffers'[j] = buffers[j]
                 /\ buffers[j].data # NULL =>
                       /\ buffers[j].data \in live'
                       /\ heap'[buffers[j].data] = heap[buffers[j].data]]_vars


\* ------------------------------------------------------------ the render path
\* The control path issues the manager's calls on a one-slot table while the
\* render path takes a pointer to an Allocated slot's storage, reads through
\* it and drops it, at any time: the manager takes no lock.
RenderAcquire ==
    /\ render = NULL
    /\ \E i \in Indices :
          /\ buffers[i].data # NULL
          /\ render' = buffers[i].data
    /\ UNCHANGED <<capacity, buffers, heap, live, stray, call, lastFreed, obs,
                   backend, raw, words, destroyed, misreleased, stale>>

\* a read through the pointer; stale once the block read had been released
RenderRead ==
    /\ render # NULL
    /\ stale' = (stale \/ render \notin live)
    /\ UNCHANGED <<capacity, buffers, heap, live, stray, call, lastFreed, obs,
                   backend, raw, words, destroyed, misreleased, render>>

RenderRelease ==
    /\ render # NULL
    /\ render' = NULL
    /\ UNCHANGED <<capacity, buffers, heap, live, stray, call, lastFreed, obs,
                   backend, raw, words, destroyed, misreleased, stale>>

NextRender ==
    \/ AllocateBuffer /\ Untracked
    \/ ReadBufferAllocate /\ Untracked
    \/ ReadBufferChannelsAllocate /\ Untracked
    \/ FreeBuffer /\ Untracked
    \/ ZeroBuffer /\ Untracked
    \/ SetSamplesIndices /\ Untracked
    \/ SetSamplesPosition /\ Untracked
    \/ FillSamples /\ Untracked
    \/ WriteBuffer /\ Untracked
    \/ RenderAcquire
    \/ RenderRead
    \/ RenderRelease

SpecRender == InitCycle /\ [][NextRender]_vars

\* C20: free_buffer on an Allocated slot is never held back or deferred
\* while the render path holds a pointer to the slot's storage: it succeeds,
\* the block is released in the same step, and the render path's pointer
\* stays as it was; so the render path can read the block after its release
\* (the witness).
C20_FreeBufferReleasesUnderRenderPath ==
    [][\A i \in Indices :
          (call'.op = "free_buffer" /\ call'.index = i
           /\ buffers[i].data # NULL) =>
              /\ call'.err = OK
              /\ buffers[i].data \notin live'
              /\ render' = render]_vars

\* the render path read the block it points to after free_buffer released it
C20_Witness ==
    /\ stale
    /\ render # NULL
    /\ render \notin live
    /\ call.op = "free_buffer" /\ call.err = OK

====
